---- MODULE Spec2Model ----
(***************************************************************************)
(* A model of mapboxgl/viz.py: the MapViz class hierarchy, its             *)
(* constructors, the option assembly of create_html and the vector         *)
(* choropleth data join.                                                   *)
(*                                                                         *)
(* Python values are modelled as follows.                                  *)
(*   - An argument or attribute that may be None is an option: None is the *)
(*     empty set and a value v is the singleton {v}.                        *)
(*   - An access token is a sequence of characters, so that its prefix can *)
(*     be inspected; every other str is a TLA+ string.                     *)
(*   - An object is a record of its attributes; an attribute a class never *)
(*     assigns is not a field of the record.                               *)
(*   - A dict is a function from its keys; dict.update(d) is d @@ dict.    *)
(*   - A float is a fixed-point integer with one decimal digit (Num).      *)
(*   - A raised exception is a record of its class and its argument.       *)
(***************************************************************************)
EXTENDS Integers, Sequences, FiniteSets, TLC

VARIABLES
    env,      \* os.environ.get('MAPBOX_ACCESS_TOKEN'): an optional token
    request,  \* the class and the constructor arguments of the caller
    viz,      \* the constructed object: None until the constructor returns
    err,      \* the exception the last operation raised, NoError if none
    last,     \* the last operation performed on the object
    call      \* what the last create_html did: None before the first call

vars == <<env, request, viz, err, last, call>>

----------------------------------------------------------------------------
(* Bounds of the model *)

MaxTokenLen == 3
MaxRows == 2
MaxStops == 2

----------------------------------------------------------------------------
(* Python values *)

None == {}
Some(v) == {v}
Get(o) == CHOOSE v \in o : TRUE

Num(whole, tenths) == 10 * whole + tenths

NoError == [class |-> "none", arg |-> None]
Exception(class, arg) == [class |-> class, arg |-> arg]

\* the outcome of a call that returns a value or raises
Return(v) == [exc |-> NoError, value |-> Some(v)]
Raise(class, arg) == [exc |-> Exception(class, arg), value |-> None]

\* a prefix test that looks at the first character only
startswith_first_char(s, prefix) ==
    /\ Len(s) >= Len(prefix)
    /\ SubSeq(s, 1, 1) = SubSeq(prefix, 1, 1)

\* str.startswith
startswith(s, prefix) ==
    /\ Len(s) >= Len(prefix)
    /\ SubSeq(s, 1, Len(prefix)) = prefix

\* dict.update: the keys of d are written over those of options
update(options, d) == d @@ options

\* assignment of attributes to an object
SetAttrs(self, attrs) == attrs @@ self

GL_JS_VERSION == "v0.44.1"

----------------------------------------------------------------------------
(* json.dumps(data, ensure_ascii=False) of a list of flat rows.  A row is  *)
(* a function from some of the keys "id" (a str) and "pop" (an int), and   *)
(* its keys are serialized in that order.                                  *)

KeyOrder == <<"id", "pop">>

dumps_value(k, v) == IF k = "id" THEN "\"" \o v \o "\"" ELSE ToString(v)

RECURSIVE dumps_items(_, _, _)
dumps_items(row, i, first) ==
    IF i > Len(KeyOrder) THEN ""
    ELSE LET k == KeyOrder[i]
         IN IF k \in DOMAIN row
            THEN (IF first THEN "" ELSE ", ")
                 \o "\"" \o k \o "\": " \o dumps_value(k, row[k])
                 \o dumps_items(row, i + 1, FALSE)
            ELSE dumps_items(row, i + 1, first)

dumps_row(row) == "{" \o dumps_items(row, 1, TRUE) \o "}"

RECURSIVE dumps_rows(_, _)
dumps_rows(data, i) ==
    IF i > Len(data) THEN ""
    ELSE (IF i = 1 THEN "" ELSE ", ") \o dumps_row(data[i])
         \o dumps_rows(data, i + 1)

json_dumps(data) == "[" \o dumps_rows(data, 1) \o "]"

----------------------------------------------------------------------------
(* Constructors.  Each takes the caller's request and the environment and  *)
(* returns the new object or raises.                                       *)

PK == <<"p", "k">>

MapViz_init(req, environ) ==
    LET access_token ==
            IF req.access_token = None
            THEN (IF environ = None THEN <<>> ELSE Get(environ))
            ELSE Get(req.access_token)
    IN IF ~startswith(access_token, PK)
       THEN Raise("TokenError", None)
       ELSE Return([cls |-> req.cls,
                    access_token |-> access_token,
                    template |-> "base",
                    data |-> req.data,
                    div_id |-> "map",
                    width |-> "100%",
                    height |-> "500px",
                    style_url |-> "mapbox://styles/mapbox/light-v9?optimize=true",
                    center |-> <<0, 0>>,
                    zoom |-> 0,
                    below_layer |-> "",
                    opacity |-> 1,
                    label_property |-> None,
                    min_zoom |-> 0,
                    max_zoom |-> 24])

CircleViz_init(req, environ) ==
    LET super == MapViz_init(req, environ)
    IN IF super.exc # NoError THEN super
       ELSE Return(SetAttrs(Get(super.value),
                [template |-> "circle",
                 label_property |-> req.label_property,
                 color_property |-> req.color_property,
                 color_stops |-> req.color_stops,
                 color_function_type |-> "interpolate",
                 color_default |-> req.color_default]))

GraduatedCircleViz_init(req, environ) ==
    LET super == MapViz_init(req, environ)
    IN IF super.exc # NoError THEN super
       ELSE Return(SetAttrs(Get(super.value),
                [template |-> "graduated_circle",
                 label_property |-> req.label_property,
                 color_property |-> req.color_property,
                 color_stops |-> req.color_stops,
                 radius_property |-> None,
                 radius_stops |-> None,
                 color_function_type |-> "interpolate",
                 color_default |-> req.color_default,
                 radius_function_type |-> "interpolate",
                 radius_default |-> None]))

HeatmapViz_init(req, environ) ==
    LET super == MapViz_init(req, environ)
    IN IF super.exc # NoError THEN super
       ELSE Return(SetAttrs(Get(super.value),
                [template |-> "heatmap",
                 weight_property |-> None,
                 weight_stops |-> None,
                 color_stops |-> req.color_stops,
                 radius_stops |-> None]))

ClusteredCircleViz_init(req, environ) ==
    LET super == MapViz_init(req, environ)
    IN IF super.exc # NoError THEN super
       ELSE Return(SetAttrs(Get(super.value),
                [template |-> "clustered_circle",
                 color_stops |-> req.color_stops,
                 radius_stops |-> None,
                 clusterRadius |-> 30,
                 clusterMaxZoom |-> 14]))

\* a vector source as soon as one of the two is given
vector_source_of_either(vector_url, vector_layer_name) ==
    vector_url # None \/ vector_layer_name # None

\* lines 325-330: the choice between the vector and the GeoJSON choropleth
vector_source_of(vector_url, vector_layer_name) ==
    vector_url # None /\ vector_layer_name # None

ChoroplethViz_init(req, environ) ==
    LET super == MapViz_init(req, environ)
        vector_source == vector_source_of(req.vector_url, req.vector_layer_name)
    IN IF super.exc # NoError THEN super
       ELSE Return(SetAttrs(Get(super.value),
                [vector_url |-> req.vector_url,
                 vector_layer_name |-> req.vector_layer_name,
                 vector_join_property |-> req.vector_join_property,
                 data_join_property |-> req.data_join_property,
                 template |-> IF vector_source THEN "vector_choropleth"
                                               ELSE "choropleth",
                 vector_source |-> vector_source,
                 label_property |-> req.label_property,
                 color_property |-> req.color_property,
                 color_stops |-> req.color_stops,
                 color_default |-> req.color_default,
                 color_function_type |-> "interpolate",
                 line_color |-> "white",
                 line_stroke |-> req.line_stroke,
                 line_width |-> 1]))

\* the constructor of the requested class
new(req, environ) ==
    CASE req.cls = "MapViz" -> MapViz_init(req, environ)
      [] req.cls = "CircleViz" -> CircleViz_init(req, environ)
      [] req.cls = "GraduatedCircleViz" -> GraduatedCircleViz_init(req, environ)
      [] req.cls = "HeatmapViz" -> HeatmapViz_init(req, environ)
      [] req.cls = "ClusteredCircleViz" -> ClusteredCircleViz_init(req, environ)
      [] req.cls = "ChoroplethViz" -> ChoroplethViz_init(req, environ)

----------------------------------------------------------------------------
(* MapViz.create_html, lines 87-103: the options every class emits *)

\* the label property wrapped in braces whether or not it is set
label_option_always_wrapped(self) ==
    [labelProperty |->
        Some("{" \o (IF self.label_property = None THEN "None"
                     ELSE Get(self.label_property)) \o "}")]

\* lines 100-103: the label property in the renderer's placeholder syntax
label_option(self) ==
    IF self.label_property = None
    THEN [labelProperty |-> None]
    ELSE [labelProperty |-> Some("{" \o Get(self.label_property) \o "}")]

universal_options(self) ==
    LET options ==
            [gl_js_version |-> GL_JS_VERSION,
             accessToken |-> self.access_token,
             div_id |-> self.div_id,
             styleUrl |-> self.style_url,
             center |-> self.center,
             zoom |-> self.zoom,
             geojson_data |-> json_dumps(self.data),
             belowLayer |-> self.below_layer,
             opacity |-> self.opacity,
             minzoom |-> self.min_zoom,
             maxzoom |-> self.max_zoom]
    IN update(options, label_option(self))

----------------------------------------------------------------------------
(* The hooks add_unique_template_variables.  A hook returns the exception  *)
(* it raised (NoError if none), the object and the options as it left      *)
(* them, and the set of keys it wrote into the options.                    *)

Hooked(exc, self, options, written) ==
    [exc |-> exc, self |-> self, options |-> options, written |-> written]

MapViz_add_unique_template_variables(self, options) ==
    Hooked(NoError, self, options, {})

\* a circle hook that also writes the bare label property
CircleViz_hook_writes_label(self, options) ==
    LET d == [geojson_data |-> json_dumps(self.data),
              labelProperty |-> self.label_property,
              colorProperty |-> self.color_property,
              colorType |-> self.color_function_type,
              colorStops |-> self.color_stops,
              defaultColor |-> self.color_default]
    IN Hooked(NoError, self, update(options, d), DOMAIN d)

CircleViz_add_unique_template_variables(self, options) ==
    LET d == [geojson_data |-> json_dumps(self.data),
              colorProperty |-> self.color_property,
              colorType |-> self.color_function_type,
              colorStops |-> self.color_stops,
              defaultColor |-> self.color_default]
    IN Hooked(NoError, self, update(options, d), DOMAIN d)

GraduatedCircleViz_add_unique_template_variables(self, options) ==
    LET d == [colorProperty |-> self.color_property,
              colorStops |-> self.color_stops,
              colorType |-> self.color_function_type,
              radiusType |-> self.radius_function_type,
              defaultColor |-> self.color_default,
              defaultRadius |-> self.radius_default,
              radiusProperty |-> self.radius_property,
              radiusStops |-> self.radius_stops]
    IN Hooked(NoError, self, update(options, d), DOMAIN d)

HeatmapViz_add_unique_template_variables(self, options) ==
    LET d == [colorStops |-> self.color_stops,
              radiusStops |-> self.radius_stops,
              weightProperty |-> self.weight_property,
              weightStops |-> self.weight_stops]
    IN Hooked(NoError, self, update(options, d), DOMAIN d)

\* self.color_stops[0][1] is evaluated while the dict is built, before
\* anything is written
ClusteredCircleViz_add_unique_template_variables(self, options) ==
    IF self.color_stops = None
    THEN Hooked(Exception("TypeError", None), self, options, {})
    ELSE IF Len(Get(self.color_stops)) = 0
    THEN Hooked(Exception("IndexError", None), self, options, {})
    ELSE LET d == [colorStops |-> self.color_stops,
                   baseColor |-> Get(self.color_stops)[1][2],
                   radiusStops |-> self.radius_stops,
                   clusterRadius |-> self.clusterRadius,
                   clusterMaxZoom |-> self.clusterMaxZoom]
         IN Hooked(NoError, self, update(options, d), DOMAIN d)

----------------------------------------------------------------------------
(* mapboxgl.utils.color_map: the first stop whose key equals the looked-up *)
(* value gives the colour; without such a stop the default does.           *)

RECURSIVE scan_stops(_, _, _, _)
scan_stops(lookup, stops, i, default) ==
    IF i > Len(stops) THEN default
    ELSE IF stops[i][1] = lookup THEN stops[i][2]
    ELSE scan_stops(lookup, stops, i + 1, default)

color_map(lookup, color_stops, default_color) ==
    IF color_stops = None THEN default_color
    ELSE scan_stops(lookup, Get(color_stops), 1, default_color)

----------------------------------------------------------------------------
(* ChoroplethViz *)

\* row[property]: KeyError unless the row has the key
has_key(row, property) == property # None /\ Get(property) \in DOMAIN row

\* lines 344-350: one iteration of the loop per row, from row i on
RECURSIVE vector_color_map_from(_, _, _)
vector_color_map_from(self, i, vector_stops) ==
    IF i > Len(self.data) THEN Return(vector_stops)
    ELSE LET row == self.data[i]
         IN IF ~has_key(row, self.color_property)
            THEN Raise("KeyError", self.color_property)
            ELSE IF ~has_key(row, self.data_join_property)
            THEN Raise("KeyError", self.data_join_property)
            ELSE LET color == color_map(row[Get(self.color_property)],
                                        self.color_stops, self.color_default)
                 IN vector_color_map_from(self, i + 1,
                        Append(vector_stops,
                               <<row[Get(self.data_join_property)], color>>))

\* a join that inserts each entry at the front of the table
generate_vector_color_map_reversed(self) ==
    LET result == vector_color_map_from(self, 1, <<>>)
    IN IF result.exc # NoError THEN result
       ELSE LET t == Get(result.value)
            IN Return([i \in 1..Len(t) |-> t[Len(t) + 1 - i]])

\* a join that recovers from a missing key with an empty table
generate_vector_color_map_lenient(self) ==
    LET result == vector_color_map_from(self, 1, <<>>)
    IN IF result.exc # NoError THEN Return(<<>>) ELSE result

generate_vector_color_map(self) == vector_color_map_from(self, 1, <<>>)

\* a dash table that does not know the stroke '-.'
line_dash_array_of_typo(self) ==
    IF self.line_stroke \in {Some("dashed"), Some("--")}
    THEN <<Num(6, 0), Num(4, 0)>>
    ELSE IF self.line_stroke \in {Some("dotted"), Some(":")}
    THEN <<Num(0, 5), Num(4, 0)>>
    ELSE IF self.line_stroke \in {Some("dash dot"), Some(".-")}
    THEN <<Num(6, 0), Num(4, 0), Num(0, 5), Num(4, 0)>>
    ELSE <<Num(1, 0), Num(0, 0)>>

\* a dash array computed once and then read back from the object
line_dash_array_of_cached(self) ==
    IF "line_dash_array" \in DOMAIN self THEN self.line_dash_array
    ELSE IF self.line_stroke \in {Some("dashed"), Some("--")}
    THEN <<Num(6, 0), Num(4, 0)>>
    ELSE IF self.line_stroke \in {Some("dotted"), Some(":")}
    THEN <<Num(0, 5), Num(4, 0)>>
    ELSE IF self.line_stroke \in {Some("dash dot"), Some("-.")}
    THEN <<Num(6, 0), Num(4, 0), Num(0, 5), Num(4, 0)>>
    ELSE <<Num(1, 0), Num(0, 0)>>

\* lines 358-368: the value assigned to self.line_dash_array
line_dash_array_of(self) ==
    IF self.line_stroke \in {Some("dashed"), Some("--")}
    THEN <<Num(6, 0), Num(4, 0)>>
    ELSE IF self.line_stroke \in {Some("dotted"), Some(":")}
    THEN <<Num(0, 5), Num(4, 0)>>
    ELSE IF self.line_stroke \in {Some("dash dot"), Some("-.")}
    THEN <<Num(6, 0), Num(4, 0), Num(0, 5), Num(4, 0)>>
    ELSE IF self.line_stroke \in {Some("solid"), Some("-")}
    THEN <<Num(1, 0), Num(0, 0)>>
    ELSE <<Num(1, 0), Num(0, 0)>>

ChoroplethViz_add_unique_template_variables(self, options) ==
    LET self1 == SetAttrs(self, [line_dash_array |-> line_dash_array_of(self)])
        common == [colorStops |-> self1.color_stops,
                   colorProperty |-> self1.color_property,
                   colorType |-> self1.color_function_type,
                   defaultColor |-> self1.color_default,
                   lineColor |-> self1.line_color,
                   lineDashArray |-> self1.line_dash_array,
                   lineStroke |-> self1.line_stroke,
                   lineWidth |-> self1.line_width]
        options1 == update(options, common)
    IN IF self1.vector_source
       THEN LET stops == generate_vector_color_map(self1)
            IN IF stops.exc # NoError
               THEN Hooked(stops.exc, self1, options1, DOMAIN common)
               ELSE LET d == [vectorUrl |-> self1.vector_url,
                              vectorLayer |-> self1.vector_layer_name,
                              vectorColorStops |-> Get(stops.value),
                              vectorJoinColorProperty |-> self1.vector_join_property,
                              joinData |-> json_dumps(self1.data),
                              dataJoinProperty |-> self1.data_join_property]
                    IN Hooked(NoError, self1, update(options1, d),
                              DOMAIN common \cup DOMAIN d)
       ELSE LET d == [geojson_data |-> json_dumps(self1.data)]
            IN Hooked(NoError, self1, update(options1, d),
                      DOMAIN common \cup DOMAIN d)

\* the hook of the object's class
add_unique_template_variables(self, options) ==
    CASE self.cls = "MapViz" ->
            MapViz_add_unique_template_variables(self, options)
      [] self.cls = "CircleViz" ->
            CircleViz_add_unique_template_variables(self, options)
      [] self.cls = "GraduatedCircleViz" ->
            GraduatedCircleViz_add_unique_template_variables(self, options)
      [] self.cls = "HeatmapViz" ->
            HeatmapViz_add_unique_template_variables(self, options)
      [] self.cls = "ClusteredCircleViz" ->
            ClusteredCircleViz_add_unique_template_variables(self, options)
      [] self.cls = "ChoroplethViz" ->
            ChoroplethViz_add_unique_template_variables(self, options)

----------------------------------------------------------------------------
(* MapViz.create_html: the universal options, the hook, and then the       *)
(* template and the options handed to templates.format (out); an exception *)
(* of the hook leaves create_html before anything is handed over.  base is *)
(* the options before the hook, written the keys the hook wrote and final  *)
(* the options as the hook left them.                                      *)

create_html(self) ==
    LET options == universal_options(self)
        hook == add_unique_template_variables(self, options)
    IN [exc |-> hook.exc,
        self |-> hook.self,
        base |-> options,
        written |-> hook.written,
        final |-> hook.options,
        out |-> IF hook.exc # NoError THEN None
                ELSE Some([template |-> hook.self.template,
                           options |-> hook.options])]

----------------------------------------------------------------------------
(* The inputs the model draws from *)

Classes == {"MapViz", "CircleViz", "GraduatedCircleViz", "HeatmapViz",
            "ClusteredCircleViz", "ChoroplethViz"}

\* classes whose constructor takes label_property, color_property and
\* color_default
Labelled == {"CircleViz", "GraduatedCircleViz", "ChoroplethViz"}
\* classes whose constructor takes color_stops
Stopped == Classes \ {"MapViz"}

Chars == {"p", "k", "s"}
Tokens == UNION {[1..n -> Chars] : n \in 0..MaxTokenLen}
OptTokens == {None} \cup {Some(t) : t \in Tokens}

Ids == {"A", "B"}
Pops == {0, 5}
Rows == {[k \in {} |-> 0]}
        \cup {[k \in {"id"} |-> a] : a \in Ids}
        \cup {[k \in {"pop"} |-> b] : b \in Pops}
        \cup {[id |-> a, pop |-> b] : a \in Ids, b \in Pops}
Datas == UNION {[1..n -> Rows] : n \in 0..MaxRows}

Stops == {<<0, "red">>, <<5, "blue">>}
StopLists == UNION {[1..n -> Stops] : n \in 0..MaxStops}
OptStopLists == {None} \cup {Some(l) : l \in StopLists}

Strokes == {None} \cup {Some(s) : s \in {"solid", "-", "dashed", "--",
                "dotted", ":", "dash dot", "-.", "zigzag"}}

\* the constructor's defaults
Defaults(cls) ==
    [cls |-> cls,
     access_token |-> None,
     data |-> <<>>,
     label_property |-> None,
     color_property |-> None,
     color_stops |-> None,
     color_default |-> "grey",
     vector_url |-> None,
     vector_layer_name |-> None,
     vector_join_property |-> None,
     data_join_property |-> None,
     line_stroke |-> Some("solid")]

\* every class, every explicit token
TokenRequests ==
    {[Defaults(cls) EXCEPT !.access_token = t] :
        cls \in Classes, t \in OptTokens}

\* choropleths over every data set and stop list, with and without the
\* vector source
JoinRequests ==
    {[Defaults("ChoroplethViz") EXCEPT
        !.access_token = Some(PK),
        !.data = d,
        !.color_property = Some("pop"),
        !.color_stops = l,
        !.vector_url = u,
        !.vector_layer_name = n,
        !.vector_join_property = Some("id"),
        !.data_join_property = Some("id")] :
        d \in Datas, l \in OptStopLists,
        u \in {None, Some("mapbox://x")}, n \in {None, Some("y")}}

StyleData == {<<>>, <<[id |-> "A", pop |-> 5]>>, <<[id |-> "B"]>>}
StyleStops == {None, Some(<<>>), Some(<<<<0, "red">>, <<5, "blue">>>>)}

\* every class with its styling arguments
StyleRequests ==
    {[Defaults(cls) EXCEPT
        !.access_token = Some(PK),
        !.data = d,
        !.label_property = IF cls \in Labelled THEN lp ELSE None,
        !.color_property = IF cls \in Labelled THEN cp ELSE None,
        !.color_stops = IF cls \in Stopped THEN l ELSE None,
        !.vector_url = IF cls = "ChoroplethViz" THEN v ELSE None,
        !.vector_layer_name = IF cls = "ChoroplethViz" THEN v ELSE None,
        !.vector_join_property = IF cls = "ChoroplethViz" THEN v ELSE None,
        !.data_join_property =
            IF cls = "ChoroplethViz" /\ v # None THEN Some("id") ELSE None,
        !.line_stroke = IF cls = "ChoroplethViz" THEN s ELSE Some("solid")] :
        cls \in Classes, d \in StyleData, lp \in {None, Some("name")},
        cp \in {None, Some("pop")}, l \in StyleStops, v \in {None, Some("y")},
        s \in {None, Some("solid"), Some("dashed")}}

----------------------------------------------------------------------------
(* Actions *)

\* viz = Class(**request)
Construct ==
    /\ last = "none"
    /\ LET result == new(request, env)
       IN /\ viz' = result.value
          /\ err' = result.exc
    /\ last' = "init"
    /\ UNCHANGED <<env, request, call>>

\* viz.create_html()
CreateHtml ==
    /\ viz # None
    /\ LET result == create_html(Get(viz))
       IN /\ viz' = Some(result.self)
          /\ err' = result.exc
          /\ call' = Some([base |-> result.base,
                           written |-> result.written,
                           final |-> result.final,
                           out |-> result.out])
    /\ last' = "create_html"
    /\ UNCHANGED <<env, request>>

\* viz.line_stroke = s, on a choropleth
SetLineStroke ==
    /\ viz # None
    /\ Get(viz).cls = "ChoroplethViz"
    /\ \E s \in Strokes :
        /\ s # Get(viz).line_stroke
        /\ viz' = Some([Get(viz) EXCEPT !.line_stroke = s])
    /\ err' = NoError
    /\ last' = "line_stroke"
    /\ UNCHANGED <<env, request, call>>

InitState ==
    /\ viz = None
    /\ err = NoError
    /\ last = "none"
    /\ call = None

\* the styling of every class
Init ==
    /\ env = None
    /\ request \in StyleRequests
    /\ InitState

Next == Construct \/ CreateHtml \/ SetLineStroke

Spec == Init /\ [][Next]_vars

\* the credential check of every class
InitToken ==
    /\ env \in OptTokens
    /\ request \in TokenRequests
    /\ InitState

NextToken == Construct \/ CreateHtml

SpecToken == InitToken /\ [][NextToken]_vars

\* the data join of the choropleth
InitJoin ==
    /\ env = None
    /\ request \in JoinRequests
    /\ InitState

NextJoin == Construct \/ CreateHtml

SpecJoin == InitJoin /\ [][NextJoin]_vars

----------------------------------------------------------------------------
(* Properties *)

Constructed == viz # None
Self == Get(viz)
Called == call # None
Handed == Called /\ Get(call).out # None
Out == Get(Get(call).out)

\* the token the constructor checks: the argument, else the environment
\* variable, else the empty string
EffectiveToken ==
    IF request.access_token # None THEN Get(request.access_token)
    ELSE IF env # None THEN Get(env)
    ELSE <<>>

BeginsWithPk(t) == Len(t) >= 2 /\ t[1] = "p" /\ t[2] = "k"

\* C1: construction of any class succeeds exactly when the effective token
\* starts with 'pk'; otherwise it raises the token error and there is no
\* object.
C1_TokenGate ==
    last # "none" =>
        /\ Constructed <=> BeginsWithPk(EffectiveToken)
        /\ Constructed => Self.access_token = EffectiveToken
        /\ ~Constructed => err.class = "TokenError"
        /\ (last = "init" /\ Constructed) => err = NoError

\* an object built from the environment's token, longer than the prefix
C1_Witness ==
    /\ last = "init"
    /\ Constructed
    /\ request.access_token = None
    /\ env # None
    /\ Len(Self.access_token) > 2

RowsCarry(property) ==
    \A i \in 1..Len(request.data) : has_key(request.data[i], property)

VectorRequested ==
    request.vector_url # None /\ request.vector_layer_name # None

\* C2: when every row carries the colour and the join property, the join
\* table of a vector choropleth has one entry per row, in row order, pairing
\* the row's join key with the row's resolved colour.
C2_JoinTable ==
    (/\ Constructed
     /\ Self.cls = "ChoroplethViz"
     /\ Self.vector_source
     /\ RowsCarry(request.color_property)
     /\ RowsCarry(request.data_join_property)
     /\ last = "create_html") =>
        /\ Handed
        /\ LET table == Out.options.vectorColorStops
               rows == request.data
           IN /\ Len(table) = Len(rows)
              /\ \A i \in 1..Len(rows) :
                    table[i] =
                        <<rows[i][Get(request.data_join_property)],
                          color_map(rows[i][Get(request.color_property)],
                                    request.color_stops,
                                    request.color_default)>>

\* two rows with the same join key and different colours, both in the table
C2_Witness ==
    /\ Handed
    /\ "vectorColorStops" \in DOMAIN Out.options
    /\ Len(request.data) = 2
    /\ RowsCarry(request.color_property)
    /\ RowsCarry(request.data_join_property)
    /\ request.data[1].id = request.data[2].id
    /\ Len(Out.options.vectorColorStops) = 2
    /\ Out.options.vectorColorStops[1][2] # Out.options.vectorColorStops[2][2]

\* C3 (as claimed): a row without the colour property gets the entry
\* [join key, color_default] and option assembly does not raise.
C3_AbsentColorPropertyDefaults ==
    (/\ Constructed
     /\ Self.cls = "ChoroplethViz"
     /\ Self.vector_source
     /\ RowsCarry(request.data_join_property)
     /\ last = "create_html") =>
        /\ err = NoError
        /\ Handed
        /\ \A i \in 1..Len(request.data) :
              ~has_key(request.data[i], request.color_property) =>
                  Out.options.vectorColorStops[i] =
                      <<request.data[i][Get(request.data_join_property)],
                        request.color_default>>

\* C4: a vector choropleth with a row that lacks the join property ends
\* create_html in a lookup error, and nothing is handed to the template.
C4_MissingJoinKeySurfaces ==
    (/\ Constructed
     /\ Self.cls = "ChoroplethViz"
     /\ Self.vector_source
     /\ ~RowsCarry(request.data_join_property)
     /\ last = "create_html") =>
        /\ err.class = "KeyError"
        /\ RowsCarry(request.color_property) =>
              err.arg = request.data_join_property
        /\ Get(call).out = None

\* the second row lacks the join key, after a first row that could be joined
C4_Witness ==
    /\ Constructed
    /\ last = "create_html"
    /\ Self.vector_source
    /\ Len(request.data) = 2
    /\ has_key(request.data[1], request.data_join_property)
    /\ has_key(request.data[1], request.color_property)
    /\ has_key(request.data[2], request.color_property)
    /\ ~has_key(request.data[2], request.data_join_property)
    /\ err = Exception("KeyError", request.data_join_property)

VectorKeys == {"vectorUrl", "vectorLayer", "vectorColorStops",
               "vectorJoinColorProperty", "joinData", "dataJoinProperty"}

\* C5: a choropleth is in vector-join mode exactly when vector_url and
\* vector_layer_name are both set; otherwise it is the GeoJSON choropleth,
\* whose create_html never raises and emits none of the vector keys.
C5_VectorModeIffBothSet ==
    (Constructed /\ Self.cls = "ChoroplethViz") =>
        /\ Self.vector_source <=> VectorRequested
        /\ Self.template = IF VectorRequested THEN "vector_choropleth"
                                              ELSE "choropleth"
        /\ (VectorRequested /\ Handed) =>
              /\ Out.template = "vector_choropleth"
              /\ VectorKeys \subseteq DOMAIN Out.options
        /\ (~VectorRequested /\ last = "create_html") =>
              /\ err = NoError
              /\ Handed
              /\ Out.template = "choropleth"
              /\ DOMAIN Out.options \cap VectorKeys = {}

\* only the layer name is missing, and a row lacks both properties
C5_Witness ==
    /\ Constructed
    /\ last = "create_html"
    /\ request.vector_url # None
    /\ request.vector_layer_name = None
    /\ \E i \in 1..Len(request.data) : DOMAIN request.data[i] = {}
    /\ Handed
    /\ Out.template = "choropleth"

\* C6 (as claimed): nothing but the credential error and the missing join
\* key error comes out of construction and option assembly; in particular
\* create_html on an object built without color_stops does not raise.
C6_OnlyCredentialAndJoinKeyErrors ==
    /\ \/ err.class \in {"none", "TokenError"}
       \/ /\ err.class = "KeyError"
          /\ err.arg = request.data_join_property
    /\ (/\ last = "create_html"
        /\ request.cls = "ClusteredCircleViz"
        /\ request.color_stops = None) => err = NoError

UniversalKeys == {"gl_js_version", "accessToken", "div_id", "styleUrl",
                  "center", "zoom", "geojson_data", "belowLayer", "opacity",
                  "minzoom", "maxzoom", "labelProperty"}

\* C7 (as claimed): the keys the hook writes are disjoint from the universal
\* keys.
C7_HookKeysDisjoint ==
    Called => Get(call).written \cap UniversalKeys = {}

\* C7 (amended): the only universal key a hook writes is geojson_data, and
\* the hook leaves every universal key with the value create_html gave it.
C7_HookPreservesUniversal ==
    Called =>
        /\ DOMAIN Get(call).base = UniversalKeys
        /\ Get(call).written \cap UniversalKeys \subseteq {"geojson_data"}
        /\ \A k \in UniversalKeys : Get(call).final[k] = Get(call).base[k]

\* a circle map whose hook wrote geojson_data again
C7_Witness ==
    /\ Handed
    /\ Self.cls = "CircleViz"
    /\ "geojson_data" \in Get(call).written
    /\ Len(request.data) > 0
    /\ request.label_property # None

\* the dash pattern of a line stroke, in tenths
DashPattern(stroke) ==
    CASE stroke = Some("solid") -> <<10, 0>>
      [] stroke \in {Some("dashed"), Some("--")} -> <<60, 40>>
      [] stroke \in {Some("dotted"), Some(":")} -> <<5, 40>>
      [] stroke \in {Some("dash dot"), Some("-.")} -> <<60, 40, 5, 40>>
      [] OTHER -> <<10, 0>>

\* C8: the lineDashArray a choropleth emits is the dash pattern of the
\* lineStroke it emits, and no line stroke makes create_html raise.
C8_DashTable ==
    (Constructed /\ Self.cls = "ChoroplethViz") =>
        /\ Handed => Out.options.lineDashArray =
                        DashPattern(Out.options.lineStroke)
        /\ (~Self.vector_source /\ last = "create_html") => err = NoError

\* the dash-dot pattern, emitted for the stroke '-.'
C8_Witness ==
    /\ Handed
    /\ Self.cls = "ChoroplethViz"
    /\ Out.options.lineStroke = Some("-.")
    /\ Out.options.lineDashArray = <<60, 40, 5, 40>>

\* C9: every assembled option map has the key labelProperty: None exactly
\* when label_property is unset, else the property name in braces.
C9_LabelProperty ==
    Handed =>
        /\ "labelProperty" \in DOMAIN Out.options
        /\ Out.options.labelProperty = None <=> Self.label_property = None
        /\ Self.label_property # None =>
              Out.options.labelProperty =
                  Some("{" \o Get(Self.label_property) \o "}")
        /\ Out.options.labelProperty \notin
              {Some("{undefined}"), Some("{None}"), Some("{}")}

\* a choropleth without a label property, whose options carry None
C9_Witness ==
    /\ Handed
    /\ Self.cls = "ChoroplethViz"
    /\ request.label_property = None
    /\ Out.options.labelProperty = None

\* C10: each create_html emits the dash pattern of the line_stroke current
\* at the call, and a call that directly follows another repeats its outcome.
C10_NoMemory ==
    [][CreateHtml =>
        /\ (Self.cls = "ChoroplethViz" /\ Get(call').out # None) =>
              /\ Get(Get(call').out).options.lineDashArray =
                    DashPattern(Self.line_stroke)
              /\ Get(Get(call').out).options.lineStroke = Self.line_stroke
        /\ last = "create_html" =>
              /\ Get(call').out = Get(call).out
              /\ err' = err]_vars

\* after a call, line_stroke was reassigned and the stored line_dash_array
\* is no longer the pattern of the current stroke
C10_Witness ==
    /\ Constructed
    /\ Called
    /\ last = "line_stroke"
    /\ Self.cls = "ChoroplethViz"
    /\ "line_dash_array" \in DOMAIN Self
    /\ Self.line_dash_array # DashPattern(Self.line_stroke)

====
